---- MODULE Spec2Model ----
(***************************************************************************)
(* State-machine model of the retrieval-augmented-generation core of the   *)
(* bot: start-up (main_async / init_rag_system), the Knowledge Store       *)
(* (RAGDatabase), document ingestion (DocumentUploader), query-time        *)
(* retrieval (RAGEngine), the batch embedding call (EmbeddingService) and  *)
(* the chat handler (handle_ai_message).  Every await of the Python code   *)
(* is a step boundary; the synchronous code between two awaits is one      *)
(* atomic step.                                                            *)
(***************************************************************************)
EXTENDS Integers, Sequences, FiniteSets, TLC

(***************************************************************************)
(* Bounds of the model.                                                    *)
(***************************************************************************)
MaxChunks == 2      \* chunks the splitter yields for the long sample file
MaxDeletes == 1     \* delete_document calls while uploads run
MaxRepeatDeletes == 2 \* delete_document calls on a store at rest
MaxQueries == 2     \* process_query calls in one behaviour
MaxStoredChunks == 5 \* chunk rows in the store when retrieval starts
MaxTurns == 4       \* user turns of the chat user in one behaviour
MaxBatch == 3       \* texts handed to one create_embeddings_batch call
MaxFirstTurns == 1  \* user turns that follow a fairly scheduled start-up
MaxConcurrentTurns == 6 \* user turns handled by two interleaving tasks

(***************************************************************************)
(* Program constants.                                                      *)
(***************************************************************************)
max_retries == 5            \* init_rag_system
retry_delay == 2            \* init_rag_system
MinTextLen == 10            \* len(text.strip()) < 10
SearchLimit == 4            \* search_chunks(query_embedding, limit=4)
similarity_threshold == 70  \* 0.7, in hundredths
max_history_pairs == 3      \* handle_ai_message
max_history == 3            \* get_response
chunk_size == 1000          \* RecursiveCharacterTextSplitter(chunk_size=1000)
ContextLimit == 500         \* _build_context: len(content) > 500
EllipsisLen == 3            \* _build_context: + "..."

VARIABLES
    settings,        \* config.settings: RAG_ENABLED, AI_ENABLED, POSTGRES_PORT_RAG set
    mainPc,          \* position of main_async / init_rag_system
    attempt,         \* init_rag_system: loop variable of the retry loop
    wait_time,       \* init_rag_system: delay being slept (0 when not sleeping)
    initOutcome,     \* how init_rag_system ended
    initRaised,      \* init_rag_system let an exception out to main_async
    rag_initialized, \* main_async: rag_initialized
    botStarted,      \* main_async reached application.start()
    documents,       \* table rag_documents
    chunks,          \* table rag_chunks
    usage,           \* table rag_usage_stats, in insertion order
    nextDocId,       \* SERIAL sequence of rag_documents.id
    up,              \* the process_file calls
    del,             \* the delete_document calls made so far
    qc,              \* the process_query call in flight and the count of calls
    chat,            \* the chat user's dialogue and the handle_ai_message call
    batch            \* the create_embeddings_batch call

vars == <<settings, mainPc, attempt, wait_time, initOutcome, initRaised, rag_initialized,
          botStarted, documents, chunks, usage, nextDocId, up, del, qc, chat, batch>>

startupVars == <<settings, mainPc, attempt, wait_time, initOutcome, initRaised,
                 rag_initialized, botStarted>>
storeVars == <<documents, chunks, usage, nextDocId>>

Range(s) == {s[k] : k \in DOMAIN s}

(***************************************************************************)
(* Start-up: main_async and init_rag_system.                               *)
(***************************************************************************)
Settings == [RAG_ENABLED : BOOLEAN, AI_ENABLED : BOOLEAN, POSTGRES_PORT_RAG : BOOLEAN]

\* wait_time = retry_delay * (2 ** attempt)
RECURSIVE Pow2(_)
Pow2(n) == IF n = 0 THEN 1 ELSE 2 * Pow2(n - 1)
\* Mutant: the delay grows by retry_delay per attempt.
BackoffDelay_Linear(a) == retry_delay * (a + 1)
BackoffDelay(a) == retry_delay * Pow2(a)

\* Whether the exception re-raised when the last attempt fails leaves
\* init_rag_system: the `raise` of the retry loop sits inside the function's
\* outer try, whose `except Exception` logs it and returns False.
ExhaustedPropagates == FALSE

\* main_async calls init_rag_system inside try / except Exception, sets
\* rag_initialized = False on an exception and goes on to build the bot.
AfterInit == "build"

\* main_async up to the call of init_rag_system, and init_rag_system up to
\* its first await.
MainStart ==
    /\ mainPc = "start"
    /\ IF settings.RAG_ENABLED /\ settings.AI_ENABLED
       THEN IF ~settings.POSTGRES_PORT_RAG
            THEN /\ initOutcome' = "no_url"
                 /\ mainPc' = AfterInit
            ELSE /\ initOutcome' = "connecting"
                 /\ mainPc' = "connect"
       ELSE /\ initOutcome' = "disabled"
            /\ mainPc' = "build"
    /\ UNCHANGED <<settings, attempt, wait_time, initRaised, rag_initialized,
                   botStarted, storeVars, up, del, qc, chat, batch>>

\* await rag_db.connect() succeeds: the loop breaks, the remaining components
\* are built and init_rag_system returns True.
ConnectOk ==
    /\ mainPc = "connect"
    /\ initOutcome' = "ok"
    /\ rag_initialized' = TRUE
    /\ attempt' = 0
    /\ mainPc' = AfterInit
    /\ UNCHANGED <<settings, wait_time, initRaised, botStarted, storeVars, up, del, qc, chat, batch>>

\* await rag_db.connect() raises.
ConnectFail ==
    /\ mainPc = "connect"
    /\ IF attempt < max_retries - 1
       THEN /\ wait_time' = BackoffDelay(attempt)
            /\ mainPc' = "sleep"
            /\ UNCHANGED <<attempt, initOutcome, initRaised, rag_initialized>>
       ELSE /\ initOutcome' = "exhausted"
            /\ initRaised' = ExhaustedPropagates
            /\ rag_initialized' = FALSE
            /\ attempt' = 0
            /\ mainPc' = AfterInit
            /\ UNCHANGED wait_time
    /\ UNCHANGED <<settings, botStarted, storeVars, up, del, qc, chat, batch>>

\* await asyncio.sleep(wait_time) returns; next iteration of the for loop.
SleepDone ==
    /\ mainPc = "sleep"
    /\ attempt' = attempt + 1
    /\ wait_time' = 0
    /\ mainPc' = "connect"
    /\ UNCHANGED <<settings, initOutcome, initRaised, rag_initialized, botStarted,
                   storeVars, up, del, qc, chat, batch>>

\* main_async after the RAG block: the application is built, handlers are
\* registered and the bot is started.
StartBot ==
    /\ mainPc = "build"
    /\ botStarted' = TRUE
    /\ mainPc' = "serving"
    /\ UNCHANGED <<settings, attempt, wait_time, initOutcome, initRaised,
                   rag_initialized, storeVars, up, del, qc, chat, batch>>

\* The RAG handlers are registered only when rag_initialized.
RagServing == mainPc = "serving" /\ rag_initialized


(***************************************************************************)
(* Uploaded files.  A file is named by its bytes; FileText is the text the *)
(* extraction step obtains from it (decode / _extract_pdf_text /           *)
(* _extract_docx_text before the null bytes are removed), one character    *)
(* per element.                                                            *)
(***************************************************************************)
Files == {"blank", "nul", "docA", "docB"}

NUL == "\\0"
Whitespace == {" ", "\n", "\t"}

FileText(f) ==
    CASE f = "blank" -> <<" ", "a", "b", "c", " ", "\n">>
      [] f = "nul"   -> <<"a", "b", "c", "d", "e", "f", "g", "h", "i", NUL, " ">>
      [] f = "docA"  -> <<"w", "i", "n", "d", " ", "t", "u", "r", "b", "i", "n", "e", "\n">>
      [] f = "docB"  -> <<"a", " ", "b", " ", "c", " ", "d", " ", "e", " ", "f">>

\* hashlib.md5(file_bytes).hexdigest(): a function of the bytes alone.
md5(f) == <<"md5", f>>

\* Names of uploaded files, split at the dots.
Filenames == { <<"notes", "txt">>, <<"Report", "PDF">>, <<"memo", "docx">>,
               <<"image", "xyz">>, <<"README">> }

\* str.lower() on the sample extensions.
Lower(x) == IF x = "PDF" THEN "pdf" ELSE x

\* ext = filename.lower().split('.')[-1] if '.' in filename else ''
Ext(filename) == IF Len(filename) > 1 THEN Lower(filename[Len(filename)]) ELSE ""

\* The branch of process_file a file name selects.
Handler(filename) ==
    LET ext == Ext(filename) IN
    IF ext = "pdf" THEN "process_pdf"
    ELSE IF ext \in {"txt", "md", "text"} THEN "process_text"
    ELSE IF ext \in {"docx", "doc"} THEN "process_docx"
    ELSE "unsupported"

\* text.replace('\x00', '')
RemoveNul(t) == SelectSeq(t, LAMBDA ch : ch # NUL)

RECURSIVE LStrip(_)
LStrip(t) == IF t # <<>> /\ Head(t) \in Whitespace THEN LStrip(Tail(t)) ELSE t

RECURSIVE RStrip(_)
RStrip(t) == IF t # <<>> /\ t[Len(t)] \in Whitespace
             THEN RStrip(SubSeq(t, 1, Len(t) - 1)) ELSE t

\* str.strip()
Strip(t) == RStrip(LStrip(t))

\* The text handed to _process_and_save.
ExtractedText(f) == RemoveNul(FileText(f))

\* if not text or len(text.strip()) < 10: reject
TextRejected(t) == t = <<>> \/ Len(Strip(t)) < MinTextLen

\* self.text_splitter.split_text(text): the number of chunks.  The splitter
\* is deterministic; it yields at least one chunk for a text that passed the
\* length check.
NumChunks(f) == IF f = "docA" THEN MaxChunks ELSE 1

(***************************************************************************)
(* Embeddings and similarity.  A vector is named by a small integer; the   *)
(* provider is a function of the text.  Sim is 100 * cosine similarity.    *)
(***************************************************************************)
EmbVals == {0, 1, 2}
\* create_embedding returns None when the request fails: a value outside
\* EmbVals.
None == 0 - 1

ChunkEmbedding(f, i) == IF f = "docA" THEN i % 3 ELSE 2

Abs(x) == IF x < 0 THEN 0 - x ELSE x

\* 1 - (c.embedding <=> query), scaled by 100
Sim(q, e) == 100 - 30 * Abs(q - e)

(***************************************************************************)
(* The Knowledge Store.                                                    *)
(***************************************************************************)
DocIds(docs) == {d.id : d \in docs}

\* A row of rag_documents with this file_hash.
HashExists(docs, h) == \E d \in docs : d.file_hash = h

\* Mutant: the column is declared without UNIQUE.
UniqueViolation_NoConstraint(docs, h) == FALSE

\* file_hash VARCHAR(64) UNIQUE NOT NULL: the INSERT of a second row with
\* the same hash raises UniqueViolationError.
UniqueViolation(docs, h) == HashExists(docs, h)

\* INSERT INTO rag_documents ... RETURNING id
NewDocument(id, filename, h, user) ==
    [id |-> id, filename |-> filename, file_hash |-> h, uploaded_by |-> user,
     total_chunks |-> 0]

\* rag_chunks.document_id REFERENCES rag_documents(id)
ForeignKeyOk(docs, doc_id) == doc_id \in DocIds(docs)

NewChunk(doc_id, i, f, e) ==
    [document_id |-> doc_id, chunk_index |-> i, content |-> <<f, i>>,
     embedding |-> e]

ChunksOf(cs, doc_id) == {c \in cs : c.document_id = doc_id}

\* UPDATE rag_documents SET total_chunks = $1 WHERE id = $2
SetTotalChunks(docs, doc_id, n) ==
    {IF d.id = doc_id THEN [d EXCEPT !.total_chunks = n] ELSE d : d \in docs}

\* DELETE FROM rag_documents WHERE id = $1, with ON DELETE CASCADE
\* Mutant: the row is kept (the delete only reports).
DeleteDocRows_Keeps(docs, doc_id) == docs
DeleteDocRows(docs, doc_id) == {d \in docs : d.id # doc_id}
\* Mutant: the foreign key is declared without ON DELETE CASCADE and is not
\* enforced on deletion.
DeleteChunkRows_NoCascade(cs, doc_id) == cs
DeleteChunkRows(cs, doc_id) == {c \in cs : c.document_id # doc_id}


(***************************************************************************)
(* Document ingestion: DocumentUploader.process_file.                      *)
(***************************************************************************)
\* The process_file calls of a behaviour: two uploads that may overlap.
Calls == {1, 2}
\* user_id of the admin who makes upload c: the two uploads come from
\* different admins.
Uploader(c) == c

\* The outcome of a call is a dictionary: `keys` are the keys it carries, the
\* other fields hold their values (a field whose key is absent holds a
\* filler).
Pending == [keys |-> {}, success |-> FALSE, error |-> "pending", document_id |-> 0,
            chunks_created |-> 0]

\* {'success': False, 'error': ...}
Failure(err) == [keys |-> {"success", "error"},
                 success |-> FALSE, error |-> err, document_id |-> 0,
                 chunks_created |-> 0]

\* Mutant: a document without a single chunk is reported as a failure.
Success_NeedsChunks(doc_id, n) ==
    IF n = 0
    THEN [keys |-> {"success", "error"}, success |-> FALSE, error |-> "no_embeddings",
          document_id |-> 0, chunks_created |-> 0]
    ELSE [keys |-> {"success", "document_id", "filename", "chunks_created",
                    "total_text_length"},
          success |-> TRUE, error |-> "", document_id |-> doc_id, chunks_created |-> n]

\* {'success': True, 'document_id': doc_id, 'filename': filename,
\*  'chunks_created': processed_chunks, 'total_text_length': len(text)}
Success(doc_id, n) == [keys |-> {"success", "document_id", "filename",
                                 "chunks_created", "total_text_length"},
                       success |-> TRUE, error |-> "", document_id |-> doc_id,
                       chunks_created |-> n]

\* Error texts that are str(e) of an exception caught by a handler.
ExceptionTexts == {"store_error", "unique_violation", "foreign_key_violation"}

\* Mutant: the handlers have no except branch; the exception leaves
\* process_file and the caller gets no dictionary.
ExceptionOutcome_Propagates(err) == [Pending EXCEPT !.error = "raised"]

\* except Exception as e: return {'success': False, 'error': str(e)}
ExceptionOutcome(err) == Failure(err)

IdleCall == [pc |-> "idle", file |-> "blank", filename |-> <<"README">>, user |-> 1,
             doc_id |-> 0, n |-> 0, i |-> 0, processed_chunks |-> 0,
             failed_chunks |-> 0, embedding |-> None,
             embedded |-> {}, embed_requests |-> 0, dup_seen |-> FALSE,
             persisted |-> <<>>, result |-> Pending]

\* Fields of a call that are not variables of the Python code but a record
\* of what the call did: embedded (the chunk indices whose embedding request
\* succeeded), embed_requests (embedding requests issued), dup_seen (a row
\* with the file's hash was in rag_documents when the duplicate check ran),
\* persisted (the chunk indices the call inserted, in the order of the
\* INSERTs), doc_id after the return (the row the call inserted, 0 for none).

\* The call returns: its locals are gone, its inputs, its result and what it
\* did to the store and the provider remain on record.
Finish(call, res) ==
    [call EXCEPT !.pc = "done", !.result = res, !.embedding = None, !.n = 0,
                 !.i = 0, !.processed_chunks = 0, !.failed_chunks = 0]

\* process_file up to the first await of the handler it dispatches to.
StartUpload(c, f, fn) ==
    /\ RagServing
    /\ up[c].pc = "idle"
    /\ IF c = 1 THEN TRUE ELSE up[c - 1].pc # "idle"
    /\ LET call == [up[c] EXCEPT !.file = f, !.filename = fn, !.user = Uploader(c)] IN
       up' = [up EXCEPT ![c] =
                IF Handler(fn) = "unsupported"
                THEN Finish(call, Failure("unsupported"))
                ELSE [call EXCEPT !.pc = "check"]]
    /\ UNCHANGED <<startupVars, storeVars, del, qc, chat, batch>>

\* Mutant: the SELECT looks the hash up in the filename column.
DuplicateFound_WrongColumn(docs, f) == \E d \in docs : d.filename = md5(f)

\* The duplicate check of process_pdf / process_text / process_docx.
DuplicateFound(docs, f) == HashExists(docs, md5(f))

\* Mutant: the Document row is inserted before the text is validated.
CheckDuplicate_InsertFirst(c, fault) ==
    /\ up[c].pc = "check"
    /\ LET call == [up[c] EXCEPT !.dup_seen = HashExists(documents, md5(up[c].file))]
           text == ExtractedText(call.file)
       IN IF fault
          THEN /\ up' = [up EXCEPT ![c] = Finish(call, ExceptionOutcome("store_error"))]
               /\ UNCHANGED storeVars
          ELSE IF HashExists(documents, md5(call.file))
          THEN /\ up' = [up EXCEPT ![c] = Finish(call, Failure("already_uploaded"))]
               /\ UNCHANGED storeVars
          ELSE /\ documents' = documents \cup
                      {NewDocument(nextDocId, call.filename, md5(call.file), call.user)}
               /\ nextDocId' = nextDocId + 1
               /\ up' = [up EXCEPT ![c] =
                     IF TextRejected(text)
                     THEN Finish([call EXCEPT !.doc_id = nextDocId], Failure("unreadable"))
                     ELSE [call EXCEPT !.pc = "embed", !.doc_id = nextDocId,
                                       !.n = NumChunks(call.file)]]
               /\ UNCHANGED <<chunks, usage>>
    /\ UNCHANGED <<startupVars, del, qc, chat, batch>>

\* SELECT id FROM rag_documents WHERE file_hash = $1, then the synchronous
\* code up to the INSERT of add_document: text extraction, the length check
\* and split_text.  `fault`: the store raises.
CheckDuplicate(c, fault) ==
    /\ up[c].pc = "check"
    /\ LET call == [up[c] EXCEPT !.dup_seen = HashExists(documents, md5(up[c].file))]
           text == ExtractedText(call.file)
       IN up' = [up EXCEPT ![c] =
            IF fault THEN Finish(call, ExceptionOutcome("store_error"))
            ELSE IF DuplicateFound(documents, call.file)
                 THEN Finish(call, Failure("already_uploaded"))
            ELSE IF TextRejected(text) THEN Finish(call, Failure("unreadable"))
            ELSE IF NumChunks(call.file) = 0 THEN Finish(call, Failure("no_chunks"))
            ELSE [call EXCEPT !.pc = "add_document", !.n = NumChunks(call.file)]]
    /\ UNCHANGED <<startupVars, storeVars, del, qc, chat, batch>>

\* The position of _process_and_save after chunk i has been dealt with.
AfterChunk(call) == IF call.i + 1 < call.n THEN "embed" ELSE "finalize"

\* doc_id = await self.db.add_document(filename, file_hash, user_id)
AddDocument(c, fault) ==
    /\ up[c].pc = "add_document"
    /\ LET call == up[c] IN
       IF fault
       THEN /\ up' = [up EXCEPT ![c] = Finish(call, ExceptionOutcome("store_error"))]
            /\ UNCHANGED storeVars
       ELSE IF UniqueViolation(documents, md5(call.file))
       THEN /\ up' = [up EXCEPT ![c] = Finish(call, ExceptionOutcome("unique_violation"))]
            /\ UNCHANGED storeVars
       ELSE /\ documents' = documents \cup
                    {NewDocument(nextDocId, call.filename, md5(call.file), call.user)}
            /\ nextDocId' = nextDocId + 1
            /\ up' = [up EXCEPT ![c] =
                        [call EXCEPT !.pc = "embed", !.doc_id = nextDocId]]
            /\ UNCHANGED <<chunks, usage>>
    /\ UNCHANGED <<startupVars, del, qc, chat, batch>>

\* embedding = await self.embedding_service.create_embedding(chunk_text);
\* `ok`: the provider answered.  A failed embedding skips the chunk.
EmbedChunk(c, ok) ==
    /\ up[c].pc = "embed"
    /\ LET call == [up[c] EXCEPT !.embed_requests = @ + 1] IN
       up' = [up EXCEPT ![c] =
                IF ok
                THEN [call EXCEPT !.pc = "add_chunk",
                                  !.embedded = @ \cup {call.i},
                                  !.embedding = ChunkEmbedding(call.file, call.i)]
                ELSE [call EXCEPT !.failed_chunks = @ + 1, !.i = @ + 1,
                                  !.pc = AfterChunk(call)]]
    /\ UNCHANGED <<startupVars, storeVars, del, qc, chat, batch>>

\* Mutant: the index is the number of chunks persisted so far.
ChunkIndex_Processed(call) == call.processed_chunks

\* chunk_index=i, the position of the chunk in enumerate(chunks)
ChunkIndex(call) == call.i

\* await self.db.add_chunk(document_id=doc_id, chunk_index=i, ...)
AddChunk(c, fault) ==
    /\ up[c].pc = "add_chunk"
    /\ LET call == up[c] IN
       IF fault
       THEN /\ up' = [up EXCEPT ![c] = Finish(call, ExceptionOutcome("store_error"))]
            /\ UNCHANGED storeVars
       ELSE IF ~ForeignKeyOk(documents, call.doc_id)
       THEN /\ up' = [up EXCEPT ![c] = Finish(call, ExceptionOutcome("foreign_key_violation"))]
            /\ UNCHANGED storeVars
       ELSE /\ chunks' = chunks \cup
                    {[NewChunk(call.doc_id, call.i, call.file, call.embedding)
                        EXCEPT !.chunk_index = ChunkIndex(call)]}
            /\ up' = [up EXCEPT ![c] =
                        [call EXCEPT !.processed_chunks = @ + 1, !.i = @ + 1,
                                     !.persisted = Append(@, ChunkIndex(call)),
                                     !.embedding = None,
                                     !.pc = AfterChunk(call)]]
            /\ UNCHANGED <<documents, usage, nextDocId>>
    /\ UNCHANGED <<startupVars, del, qc, chat, batch>>

\* Mutant: the number of chunks attempted is recorded.
FinalCount_Attempted(call) == call.n

\* The count written by the final UPDATE and returned as chunks_created.
FinalCount(call) == call.processed_chunks

\* UPDATE rag_documents SET total_chunks = $1 WHERE id = $2, and the return.
Finalize(c, fault) ==
    /\ up[c].pc = "finalize"
    /\ LET call == up[c] IN
       IF fault
       THEN /\ up' = [up EXCEPT ![c] = Finish(call, ExceptionOutcome("store_error"))]
            /\ UNCHANGED storeVars
       ELSE /\ documents' = SetTotalChunks(documents, call.doc_id, FinalCount(call))
            /\ up' = [up EXCEPT ![c] =
                        Finish(call, Success(call.doc_id, FinalCount(call)))]
            /\ UNCHANGED <<chunks, usage, nextDocId>>
    /\ UNCHANGED <<startupVars, del, qc, chat, batch>>

(***************************************************************************)
(* Deletion: DocumentUploader.delete_document over                         *)
(* RAGDatabase.delete_document.                                            *)
(***************************************************************************)
\* The decimal numeral of n begins with the digit 1.
RECURSIVE BeginsWithOne(_)
BeginsWithOne(n) == IF n < 10 THEN n = 1 ELSE BeginsWithOne(n \div 10)

\* Mutant: the wrapper reports success whenever the statement ran.
DeleteReturn_Always(docs, doc_id) == TRUE

\* return "DELETE 1" in result: the command tag of the statement is
\* "DELETE n" for n rows removed, and the test looks for "DELETE 1" in it.
DeleteReturn(docs, doc_id) ==
    BeginsWithOne(Cardinality({d \in docs : d.id = doc_id}))

\* The admin names any id: one of a stored document, of a deleted one or of
\* none.  `fault`: the store raises; the uploader's wrapper returns False.
DeleteDocument(doc_id, fault) ==
    /\ RagServing
    /\ IF fault
       THEN /\ del' = Append(del, [id |-> doc_id, ret |-> FALSE])
            /\ UNCHANGED storeVars
       ELSE /\ del' = Append(del, [id |-> doc_id, ret |-> DeleteReturn(documents, doc_id)])
            /\ documents' = DeleteDocRows(documents, doc_id)
            /\ chunks' = DeleteChunkRows(chunks, doc_id)
            /\ UNCHANGED <<usage, nextDocId>>
    /\ UNCHANGED <<startupVars, up, qc, chat, batch>>

(***************************************************************************)
(* Retrieval: RAGEngine.process_query.                                     *)
(***************************************************************************)
Queries == {"q0", "q1"}

\* The provider's vector for a query text.
QueryEmbedding(q) == IF q = "q0" THEN 0 ELSE 1

\* user_id of the k-th query of a behaviour.
Asker(k) == 1 + (k % 2)

\* `return` / `return None`: the abstention value.
Abstain == [value |-> "None"]

\* One row of the SELECT of search_chunks: rag_chunks joined with
\* rag_documents, with 1 - cosine distance to the query vector.
SearchRow(ch, docs, q) ==
    LET d == CHOOSE x \in docs : x.id = ch.document_id IN
    [id |-> <<ch.document_id, ch.chunk_index>>, content |-> ch.content,
     filename |-> d.filename, similarity |-> Sim(q, ch.embedding)]

Min(a, b) == IF a < b THEN a ELSE b

\* Mutant: ORDER BY c.embedding <=> $1 DESC.
RanksBefore_Descending(r1, r2) == r1.similarity <= r2.similarity

\* ORDER BY c.embedding <=> $1: ascending distance, that is, r1 may stand
\* before r2 when it is at least as similar.
RanksBefore(r1, r2) == r1.similarity >= r2.similarity

\* ORDER BY c.embedding <=> $1 LIMIT $2, on a table without a vector index:
\* the answers the store may give.  The rows are the first `limit` rows of
\* an ordering of all joined rows, rows of equal distance in any order.
SearchResults(cs, docs, q, limit) ==
    LET joined == {ch \in cs : ch.document_id \in DocIds(docs)}
        rows   == {SearchRow(ch, docs, q) : ch \in joined}
        k      == Min(limit, Cardinality(rows))
    IN {s \in [1..k -> rows] :
          /\ \A a, b \in 1..k : a < b => (s[a] # s[b] /\ RanksBefore(s[a], s[b]))
          /\ \A r \in rows \ Range(s), a \in 1..k : RanksBefore(s[a], r)}

\* Mutant: no threshold is applied.
Relevant_Unfiltered(row) == TRUE

\* Mutant: the comparison is strict.
Relevant_Strict(row) == row.similarity > similarity_threshold

\* if chunk['similarity'] >= self.similarity_threshold
Relevant(row) == row.similarity >= similarity_threshold

\* relevant_chunks = [chunk for chunk in chunks if ...]
FilterRelevant(found) == SelectSeq(found, Relevant)

\* len(chunk['content']): the splitter yields chunks of up to chunk_size
\* characters.  The first chunk of a document is a full one, the second has
\* exactly ContextLimit characters, a later one has one more.
ContentLength(content) ==
    IF content[2] = 0 THEN chunk_size
    ELSE IF content[2] = 1 THEN ContextLimit
    ELSE ContextLimit + 1

\* One element of context_parts: the header with the file name and the
\* similarity (two decimals, which is the precision of the model's
\* similarities) and the content, cut to content[:500] + "..." when it is
\* longer than 500 characters.  `kept` is the number of characters taken
\* from the chunk, `length` the length of the content put in the context.
ContextPart(row) ==
    LET n == ContentLength(row.content) IN
    [chunk |-> row.id, source |-> row.filename, similarity |-> row.similarity,
     kept |-> Min(n, ContextLimit),
     length |-> IF n > ContextLimit THEN ContextLimit + EllipsisLen ELSE n]

\* RAGEngine._build_context: the parts, joined in the order of the list.
BuildContext(rows) == [k \in DOMAIN rows |-> ContextPart(rows[k])]

\* Mutant: the None check is missing.
EmbeddingFailed_Unchecked(e) == FALSE

\* if query_embedding is None: return
EmbeddingFailed(e) == e = None

\* The markers _build_context puts in front of every chunk, shortened to a
\* few characters: SourceMarker stands for "[Источник:", RelevanceMarker for
\* "релевантность:".
SourceMarker == <<"[", "S", ":">>
RelevanceMarker == <<"r", ":">>

\* str.replace(m, ""): every non-overlapping occurrence, left to right.
RECURSIVE RemoveAll(_, _)
RemoveAll(t, m) ==
    IF Len(t) < Len(m) THEN t
    ELSE IF SubSeq(t, 1, Len(m)) = m THEN RemoveAll(SubSeq(t, Len(m) + 1, Len(t)), m)
    ELSE <<Head(t)>> \o RemoveAll(Tail(t), m)

\* RAGEngine._clean_response
CleanResponse(t) == Strip(RemoveAll(RemoveAll(t, SourceMarker), RelevanceMarker))

\* What OpenAIAssistant.get_response can return: a generated text, or one of
\* its two fixed messages (timeout, any other error).  It never raises.
TimeoutText == <<"T">>
UnavailableText == <<"U">>
\* The request to the generation backend timed out or raised.
GenerationFailed(text) == text \in {TimeoutText, UnavailableText}
\* Contents the provider may put in response.choices[0].message.content.
GeneratedTexts == { <<"3", "5", "%">>,
                    <<" ", "[", "S", ":", "o", "k", "\n">>,
                    <<"[", "r", ":", "S", ":", "x">>,
                    <<"#", "#", "#", " ">> }
\* The code-fence mark of three grave accents, written with "#".
CodeFence == <<"#", "#", "#">>
\* content.strip(), then .replace(code fence, "").strip()
AiResponse(content) == Strip(RemoveAll(Strip(content), CodeFence))
GenerationReturns ==
    {AiResponse(t) : t \in GeneratedTexts} \cup {TimeoutText, UnavailableText}

IdleQuery == [pc |-> "idle", query |-> "q0", user |-> 1, query_embedding |-> None,
              found |-> <<>>, relevant_chunks |-> <<>>, context |-> <<>>,
              response |-> <<>>,
              searches |-> 0, generations |-> 0, logs |-> 0, logged |-> 0,
              failures |-> {}, result |-> Abstain]

\* Fields of a query call that are not variables of the Python code but a
\* record of what the call did: found (the answer of the store, kept after
\* the return), searches / generations / logs (calls of search_chunks,
\* get_response and log_usage it made), logged (Usage Records it appended),
\* failures (the steps of the call whose collaborator failed).

\* The call returns; its locals are gone.
Return(call, res) ==
    [call EXCEPT !.pc = "done", !.result = res, !.relevant_chunks = <<>>,
                 !.context = <<>>, !.response = <<>>]

\* process_query is called; it runs up to the await of create_embedding.
StartQuery(q) ==
    /\ RagServing
    /\ qc.call.pc \in {"idle", "done"}
    /\ qc.count < MaxQueries
    /\ qc' = [call |-> [IdleQuery EXCEPT !.pc = "embed", !.query = q,
                                         !.user = Asker(qc.count)],
              count |-> qc.count + 1]
    /\ UNCHANGED <<startupVars, storeVars, up, del, chat, batch>>

\* query_embedding = await self.embedding_service.create_embedding(query)
EmbedQuery(ok) ==
    /\ qc.call.pc = "embed"
    /\ LET e == IF ok THEN QueryEmbedding(qc.call.query) ELSE None
           call == [qc.call EXCEPT !.query_embedding = e,
                                   !.failures = IF ok THEN @ ELSE @ \cup {"embedding"}]
       IN qc' = [qc EXCEPT !.call =
                   IF EmbeddingFailed(e) THEN Return(call, Abstain)
                   ELSE [call EXCEPT !.pc = "search"]]
    /\ UNCHANGED <<startupVars, storeVars, up, del, chat, batch>>

\* chunks = await self.db.search_chunks(query_embedding, limit=4), the
\* filter, the test for an empty list and, up to the await of get_response,
\* the building of the context.  `fault`: the store raises.
\* search_chunks raises as well when it is handed None for the vector.
SearchChunks(fault) ==
    /\ qc.call.pc = "search"
    /\ LET call == [qc.call EXCEPT !.searches = @ + 1] IN
       IF fault \/ call.query_embedding = None
       THEN qc' = [qc EXCEPT !.call =
                     Return([call EXCEPT !.failures = @ \cup {"search"}], Abstain)]
       ELSE \E found \in SearchResults(chunks, documents, call.query_embedding, SearchLimit) :
              LET relevant == FilterRelevant(found)
                  c2 == [call EXCEPT !.found = found, !.relevant_chunks = relevant]
              IN qc' = [qc EXCEPT !.call =
                          IF relevant = <<>> THEN Return(c2, Abstain)
                          ELSE [c2 EXCEPT !.context = BuildContext(relevant),
                                          !.pc = "generate"]]
    /\ UNCHANGED <<startupVars, storeVars, up, del, chat, batch>>

\* response = await self.openai_assistant.get_response(prompt, ..., RAG=True)
\* and clean_response = self._clean_response(response)
Generate(text) ==
    /\ qc.call.pc = "generate"
    /\ qc' = [qc EXCEPT !.call.generations = @ + 1,
                        !.call.response = CleanResponse(text),
                        !.call.failures =
                            IF GenerationFailed(text) THEN @ \cup {"generation"} ELSE @,
                        !.call.pc = "log"]
    /\ UNCHANGED <<startupVars, storeVars, up, del, chat, batch>>

\* INSERT INTO rag_usage_stats (user_id, query, chunks_used, response_time_ms);
\* the elapsed time is a reading of the clock and is left out of the record.
UsageRecord(call) ==
    [user_id |-> call.user, query |-> call.query,
     chunks_used |-> Len(call.relevant_chunks)]

\* The dictionary process_query returns after logging.
QueryResult(call) ==
    [success |-> TRUE, response |-> call.response, rag_used |-> TRUE,
     chunks_used |-> Len(call.relevant_chunks), chunks |-> call.relevant_chunks]

\* Mutant: an error of log_usage is swallowed and the answer is returned.
LogFailureResult_KeepsAnswer(call) == QueryResult(call)

\* log_usage raises inside the try block of process_query: the except
\* branch returns None.
LogFailureResult(call) == Abstain

\* Mutant: the statement keeps one row per query text (an upsert).
InsertUsage_Upsert(u, rec) ==
    Append(SelectSeq(u, LAMBDA r : r.query # rec.query), rec)

\* INSERT INTO rag_usage_stats ... VALUES (...): one new row, the others
\* untouched.
InsertUsage(u, rec) == Append(u, rec)

\* await self.db.log_usage(...) and the return.  `fault`: the store raises.
LogUsage(fault) ==
    /\ qc.call.pc = "log"
    /\ LET call == [qc.call EXCEPT !.logs = @ + 1] IN
       IF fault
       THEN /\ qc' = [qc EXCEPT !.call =
                       Return([call EXCEPT !.failures = @ \cup {"logging"}],
                              LogFailureResult(call))]
            /\ UNCHANGED usage
       ELSE /\ usage' = InsertUsage(usage, UsageRecord(call))
            /\ qc' = [qc EXCEPT !.call =
                        Return([call EXCEPT !.logged = @ + 1], QueryResult(call))]
    /\ UNCHANGED <<startupVars, documents, chunks, nextDocId, up, del, chat, batch>>

(***************************************************************************)
(* EmbeddingService.create_embeddings_batch.                               *)
(***************************************************************************)
\* Texts of a batch.  The provider answers a request of several inputs as a
\* whole: one input it cannot embed (an empty string, a text over the token
\* limit) makes the request raise.
BatchTexts == {"t0", "t1", "t2", "bad"}
Unembeddable(t) == t = "bad"
TextEmbedding(t) == IF t = "t0" THEN 0 ELSE IF t = "t1" THEN 1 ELSE 2

IdleBatch == [pc |-> "idle", texts |-> <<>>, request_ok |-> TRUE, result |-> <<>>]

\* create_embeddings_batch up to `await self.client.embeddings.create(...)`.
CallBatch(texts) ==
    /\ batch.pc = "idle"
    /\ batch' = [IdleBatch EXCEPT !.pc = "request", !.texts = texts]
    /\ UNCHANGED <<startupVars, storeVars, up, del, qc, chat>>

\* return [data.embedding for data in response.data]
BatchVectors(texts) == [k \in DOMAIN texts |-> TextEmbedding(texts[k])]

\* return [None] * len(texts)
BatchNones(texts) == [k \in DOMAIN texts |-> None]

\* The request returns or raises.  `ok`: the transport and the provider are
\* up; the request still raises when it holds no input or an input the
\* provider cannot embed.
BatchAnswer(ok) ==
    /\ batch.pc = "request"
    /\ LET raised == \/ ~ok
                     \/ batch.texts = <<>>
                     \/ \E k \in DOMAIN batch.texts : Unembeddable(batch.texts[k])
       IN batch' = [batch EXCEPT !.pc = "done", !.request_ok = ok,
                                 !.result = IF raised THEN BatchNones(batch.texts)
                                            ELSE BatchVectors(batch.texts)]
    /\ UNCHANGED <<startupVars, storeVars, up, del, qc, chat>>

(***************************************************************************)
(* The chat handler: main.handle_ai_message, called by handle_text_message *)
(* for a registered user when settings.AI_ENABLED.  The application is     *)
(* built with concurrent_updates(True): the handlers of two updates of one *)
(* user run as separate tasks and interleave at their awaits.  They share  *)
(* context.user_data, whose entry 'ai_history' refers to a list object.    *)
(***************************************************************************)
\* Texts the chat user sends.
UserTexts == { <<"h", "i">>, <<"?">> }

\* ai_response = None: a value that is no text.
NoAnswer == <<"None">>

\* The fixed text of the handler's outer except branch.
TechnicalErrorText == <<"E">>

\* `from rag_system import rag_engine`: rag_system is a directory without
\* __init__.py, so the name is bound to the submodule rag_system/rag_engine.py
\* and not to the RAGEngine instance kept in the globals of
\* rag_system/rag_system.py.  The module object is truthy and has no
\* attribute process_query.
ImportedRagEngine == "module"

\* What process_query hands to a caller: None or the success dictionary.
RagOutcomes ==
    {Abstain} \cup
    {[success |-> TRUE, rag_used |-> TRUE, response |-> CleanResponse(t)] :
        t \in GenerationReturns}

\* `if not ai_response`
Falsy(answer) == answer = NoAnswer \/ answer = <<>>

\* Mutant: an exception of the RAG block reaches the outer except branch.
AfterRagFailure_Propagates == "error_reply"

\* except Exception as rag_error: the error is logged and the handler goes
\* on to `if not ai_response`.
AfterRagFailure == "generate"

\* seq[-n:] when the list is longer than n.
LastN(h, n) == IF Len(h) > n THEN SubSeq(h, Len(h) - n + 1, Len(h)) ELSE h

\* history.append(user turn), history.append(assistant turn): the list after
\* the two appends.  `turn` numbers the update the messages belong to; it is
\* not part of the Python dictionaries.
Remember(h, text, answer, turn) ==
    h \o << [role |-> "user", content |-> text, turn |-> turn],
            [role |-> "assistant", content |-> answer, turn |-> turn] >>

\* get_response: history[-max_history * 2:] when the list is longer, then
\* messages.extend(history).
SentHistory(history) == LastN(history, max_history * 2)

\* Telegram refuses a message whose text is empty: reply_text raises.
ReplyRejected(text) == text = <<>>

\* The tasks that can run handle_ai_message for the user at one time.
Handlers == {1, 2}

\* Names of list objects: one per running handler and one for user_data.
ListIds == 1..(Cardinality(Handlers) + 1)

IdleHandler == [pc |-> "idle", turn |-> 0, text |-> <<>>, history |-> 0,
                ai_response |-> NoAnswer, rag |-> "none", rag_calls |-> 0,
                history0 |-> <<>>, plain |-> <<>>, replies |-> <<>>,
                transport_faults |-> 0]

\* lists: the list objects; stored: the list context.user_data['ai_history']
\* refers to; handler[h].history: the list the local `history` of task h
\* refers to (0 when the task no longer uses it).
IdleChat == [turns |-> 0, lists |-> [i \in ListIds |-> <<>>], stored |-> 1,
             recent |-> <<>>, handler |-> [h \in Handlers |-> IdleHandler]]

\* Fields that are not variables of the Python code but a record of what
\* happened: turns (updates handled so far), recent (the last messages of
\* the dialogue in the order the turns saved them), and in a handler: turn
\* (number of its update), rag (how the RAG block ended), rag_calls
\* (process_query calls made), history0 (the dialogue history when the turn
\* began), plain (the arguments of the get_response(RAG=False) calls and
\* the history they sent to the backend), replies (texts delivered to the
\* user), transport_faults (calls of the chat transport that raised).

\* The task still uses its local `history`.
UsesHistory(t) == t.pc \in {"typing", "rag", "generate", "generating"}

\* List objects something refers to.
LiveLists(c) ==
    {c.stored} \cup {c.handler[h].history : h \in {x \in Handlers : UsesHistory(c.handler[x])}}

\* Objects nothing refers to are garbage.
Collect(c) ==
    [c EXCEPT !.lists = [i \in ListIds |-> IF i \in LiveLists(c) THEN c.lists[i] ELSE <<>>]]

\* history.append(...) twice on the list the task holds, then
\* context.user_data['ai_history'] = history[-max_history_pairs * 2:] (a new
\* list) when it is longer than that, or = history (the same object).
SaveTurn(c, h, answer) ==
    LET t     == c.handler[h]
        l     == Remember(c.lists[t.history], t.text, answer, t.turn)
        held  == {c.handler[x].history : x \in {y \in Handlers : UsesHistory(c.handler[y])}}
        new   == CHOOSE i \in ListIds : i \notin held
        cut   == Len(l) > max_history_pairs * 2
        l1    == [c.lists EXCEPT ![t.history] = l]
    IN [c EXCEPT !.lists = IF cut
                           THEN [l1 EXCEPT ![new] = LastN(l, max_history_pairs * 2)]
                           ELSE l1,
                 !.stored = IF cut THEN new ELSE t.history,
                 !.recent = LastN(Remember(@, t.text, answer, t.turn),
                                  max_history_pairs * 2),
                 !.handler[h].ai_response = answer,
                 !.handler[h].pc = "reply"]

\* handle_ai_message up to `await update.message.chat.send_action(...)`:
\* the entry 'ai_history' is created when missing and `history` refers to it.
HandleAiMessage(h, text) ==
    /\ mainPc = "serving"
    /\ settings.AI_ENABLED
    /\ chat.handler[h].pc \in {"idle", "done", "raised"}
    /\ chat' = [chat EXCEPT
                  !.turns = @ + 1,
                  !.handler[h] = [IdleHandler EXCEPT
                                    !.pc = "typing", !.turn = chat.turns + 1,
                                    !.text = text, !.history = chat.stored,
                                    !.history0 = chat.lists[chat.stored]]]
    /\ UNCHANGED <<startupVars, storeVars, up, del, qc, batch>>

\* send_action returns (`ok`) or raises, which enters the outer except.
SendTyping(h, ok) ==
    /\ chat.handler[h].pc = "typing"
    /\ chat' = Collect(IF ok THEN [chat EXCEPT !.handler[h].pc = "rag"]
                       ELSE [chat EXCEPT !.handler[h].pc = "error_reply",
                                         !.handler[h].transport_faults = @ + 1])
    /\ UNCHANGED <<startupVars, storeVars, up, del, qc, batch>>

\* The RAG block.  `outcome` is what process_query returns when it is
\* reached.  rag_result['success'] on None raises TypeError, caught like the
\* AttributeError of the module object.
RagBlock(h, outcome) ==
    /\ chat.handler[h].pc = "rag"
    /\ chat' =
         IF ~settings.RAG_ENABLED
         THEN [chat EXCEPT !.handler[h].rag = "disabled", !.handler[h].pc = "generate"]
         ELSE IF ImportedRagEngine # "engine"
         THEN [chat EXCEPT !.handler[h].rag = "failed",
                           !.handler[h].pc = AfterRagFailure]
         ELSE IF outcome = Abstain
         THEN [chat EXCEPT !.handler[h].rag = "abstained",
                           !.handler[h].rag_calls = @ + 1,
                           !.handler[h].pc = AfterRagFailure]
         ELSE IF Falsy(outcome.response)
         THEN [chat EXCEPT !.handler[h].rag = "answered",
                           !.handler[h].rag_calls = @ + 1,
                           !.handler[h].ai_response = outcome.response,
                           !.handler[h].pc = "generate"]
         ELSE Collect(SaveTurn([chat EXCEPT !.handler[h].rag = "answered",
                                            !.handler[h].rag_calls = @ + 1],
                               h, outcome.response))
    /\ UNCHANGED <<startupVars, storeVars, up, del, qc, batch>>

\* ai_assistant.get_response(user_message=text, ..., history=history,
\* RAG=False) up to the await of the request: the messages are built from
\* the list as it is now.
PlainCall(h) ==
    /\ chat.handler[h].pc = "generate"
    /\ LET t == chat.handler[h] IN
       chat' = [chat EXCEPT
                  !.handler[h].plain =
                      Append(@, [user_message |-> t.text,
                                 history |-> chat.lists[t.history],
                                 sent |-> SentHistory(chat.lists[t.history])]),
                  !.handler[h].pc = "generating"]
    /\ UNCHANGED <<startupVars, storeVars, up, del, qc, batch>>

\* get_response returns `answer`; the two appends and the cut.
PlainGenerate(h, answer) ==
    /\ chat.handler[h].pc = "generating"
    /\ chat' = Collect(SaveTurn(chat, h, answer))
    /\ UNCHANGED <<startupVars, storeVars, up, del, qc, batch>>

\* await update.message.reply_text(ai_response)
Reply(h, ok) ==
    /\ chat.handler[h].pc = "reply"
    /\ LET t == chat.handler[h] IN
       chat' = IF ReplyRejected(t.ai_response)
               THEN [chat EXCEPT !.handler[h].pc = "error_reply"]
               ELSE IF ~ok
               THEN [chat EXCEPT !.handler[h].pc = "error_reply",
                                 !.handler[h].transport_faults = @ + 1]
               ELSE [chat EXCEPT !.handler[h].replies = Append(@, t.ai_response),
                                 !.handler[h].pc = "done"]
    /\ UNCHANGED <<startupVars, storeVars, up, del, qc, batch>>

\* The outer except branch: reply_text of the fixed text.  When this call
\* raises too, the exception leaves the handler.
ErrorReply(h, ok) ==
    /\ chat.handler[h].pc = "error_reply"
    /\ chat' = IF ok
               THEN [chat EXCEPT !.handler[h].replies = Append(@, TechnicalErrorText),
                                 !.handler[h].pc = "done"]
               ELSE [chat EXCEPT !.handler[h].pc = "raised",
                                 !.handler[h].transport_faults = @ + 1]
    /\ UNCHANGED <<startupVars, storeVars, up, del, qc, batch>>

(***************************************************************************)
(* Start-up followed by ingestion and deletion.                            *)
(***************************************************************************)
Init ==
    /\ settings \in Settings
    /\ mainPc = "start"
    /\ attempt = 0
    /\ wait_time = 0
    /\ initOutcome = "not_called"
    /\ initRaised = FALSE
    /\ rag_initialized = FALSE
    /\ botStarted = FALSE
    /\ documents = {}
    /\ chunks = {}
    /\ usage = <<>>
    /\ nextDocId = 1
    /\ up = [c \in Calls |-> IdleCall]
    /\ del = <<>>
    /\ qc = [call |-> IdleQuery, count |-> 0]
    /\ chat = IdleChat
    /\ batch = IdleBatch

Next ==
    \/ MainStart
    \/ ConnectOk
    \/ ConnectFail
    \/ SleepDone
    \/ StartBot
    \/ \E c \in Calls, f \in Files, fn \in Filenames : StartUpload(c, f, fn)
    \/ \E c \in Calls, fault \in BOOLEAN : CheckDuplicate(c, fault)
    \/ \E c \in Calls, fault \in BOOLEAN : AddDocument(c, fault)
    \/ \E c \in Calls, ok \in BOOLEAN : EmbedChunk(c, ok)
    \/ \E c \in Calls, fault \in BOOLEAN : AddChunk(c, fault)
    \/ \E c \in Calls, fault \in BOOLEAN : Finalize(c, fault)
    \/ \E d \in 1..nextDocId, fault \in BOOLEAN :
          Len(del) < MaxDeletes /\ DeleteDocument(d, fault)

Spec == Init /\ [][Next]_vars

(***************************************************************************)
(* Retrieval against a populated store.  The initial store is one that     *)
(* finished ingestions leave: up to two documents, every chunk row with a  *)
(* vector of its own and total_chunks equal to the number of rows.  The    *)
(* rows are dealt to the two documents in turn, in the order of their      *)
(* vectors, so that every combination of similarities occurs.              *)
(***************************************************************************)
StoredDoc(k) == IF k % 2 = 1 THEN 1 ELSE 2
StoredRows(n, embs) ==
    {NewChunk(StoredDoc(k), (k - 1) \div 2, <<"stored", StoredDoc(k)>>, embs[k]) : k \in 1..n}
StoredDocuments(rows) ==
    {[NewDocument(d, IF d = 1 THEN <<"notes", "txt">> ELSE <<"Report", "PDF">>,
                  md5(<<"stored", d>>), d)
        EXCEPT !.total_chunks = Cardinality(ChunksOf(rows, d))] :
     d \in {r.document_id : r \in rows}}

QInit ==
    /\ settings = [RAG_ENABLED |-> TRUE, AI_ENABLED |-> TRUE, POSTGRES_PORT_RAG |-> TRUE]
    /\ mainPc = "serving"
    /\ attempt = 0
    /\ wait_time = 0
    /\ initOutcome = "ok"
    /\ initRaised = FALSE
    /\ rag_initialized = TRUE
    /\ botStarted = TRUE
    /\ \E n \in 0..MaxStoredChunks : \E embs \in [1..n -> EmbVals] :
          /\ \A k \in 1..n : k > 1 => embs[k - 1] <= embs[k]
          /\ chunks = StoredRows(n, embs)
          /\ documents = StoredDocuments(StoredRows(n, embs))
    /\ usage = <<>>
    /\ nextDocId = 3
    /\ up = [c \in Calls |-> IdleCall]
    /\ del = <<>>
    /\ qc = [call |-> IdleQuery, count |-> 0]
    /\ chat = IdleChat
    /\ batch = IdleBatch

QNext ==
    \/ \E q \in Queries : StartQuery(q)
    \/ \E ok \in BOOLEAN : EmbedQuery(ok)
    \/ \E fault \in BOOLEAN : SearchChunks(fault)
    \/ \E text \in GenerationReturns : Generate(text)
    \/ \E fault \in BOOLEAN : LogUsage(fault)

SpecQuery == QInit /\ [][QNext]_vars

(***************************************************************************)
(* Deletions, one after the other, from a populated store.                 *)
(***************************************************************************)
DeleteNext ==
    \E d \in 1..nextDocId, fault \in BOOLEAN :
        Len(del) < MaxRepeatDeletes /\ DeleteDocument(d, fault)

SpecDelete == QInit /\ [][DeleteNext]_vars

(***************************************************************************)
(* Start-up followed by the dialogue of one chat user.                     *)
(***************************************************************************)
ChatNext ==
    \/ MainStart
    \/ ConnectOk
    \/ ConnectFail
    \/ SleepDone
    \/ StartBot
    \/ \E text \in UserTexts : chat.turns < MaxTurns /\ HandleAiMessage(1, text)
    \/ \E ok \in BOOLEAN : SendTyping(1, ok)
    \/ \E outcome \in RagOutcomes : RagBlock(1, outcome)
    \/ PlainCall(1)
    \/ \E answer \in GenerationReturns : PlainGenerate(1, answer)
    \/ \E ok \in BOOLEAN : Reply(1, ok)
    \/ \E ok \in BOOLEAN : ErrorReply(1, ok)

SpecChat == Init /\ [][ChatNext]_vars


(***************************************************************************)
(* Start-up under fair scheduling, followed by the first user turns.  The  *)
(* event loop resumes main_async whenever the connect or the sleep it      *)
(* awaits has ended: asyncpg bounds a connection attempt by its timeout    *)
(* and asyncio.sleep(wait_time) returns after wait_time seconds.           *)
(***************************************************************************)
InitStep == MainStart \/ ConnectOk \/ ConnectFail \/ SleepDone

StartupNext ==
    \/ MainStart
    \/ ConnectOk
    \/ ConnectFail
    \/ SleepDone
    \/ StartBot
    \/ \E text \in UserTexts : chat.turns < MaxFirstTurns /\ HandleAiMessage(1, text)
    \/ \E ok \in BOOLEAN : SendTyping(1, ok)
    \/ \E outcome \in RagOutcomes : RagBlock(1, outcome)
    \/ PlainCall(1)
    \/ \E answer \in GenerationReturns : PlainGenerate(1, answer)
    \/ \E ok \in BOOLEAN : Reply(1, ok)
    \/ \E ok \in BOOLEAN : ErrorReply(1, ok)

SpecStartup == Init /\ [][StartupNext]_vars /\ WF_vars(InitStep)

(***************************************************************************)
(* Start-up followed by the three operations on the Knowledge Store side   *)
(* by side: one uploader, deletions and queries.                           *)
(***************************************************************************)
StoreNext ==
    \/ MainStart
    \/ ConnectOk
    \/ ConnectFail
    \/ SleepDone
    \/ StartBot
    \/ \E f \in Files, fn \in Filenames : StartUpload(1, f, fn)
    \/ \E fault \in BOOLEAN : CheckDuplicate(1, fault)
    \/ \E fault \in BOOLEAN : AddDocument(1, fault)
    \/ \E ok \in BOOLEAN : EmbedChunk(1, ok)
    \/ \E fault \in BOOLEAN : AddChunk(1, fault)
    \/ \E fault \in BOOLEAN : Finalize(1, fault)
    \/ \E d \in 1..nextDocId, fault \in BOOLEAN :
          Len(del) < MaxDeletes /\ DeleteDocument(d, fault)
    \/ \E q \in Queries : StartQuery(q)
    \/ \E ok \in BOOLEAN : EmbedQuery(ok)
    \/ \E fault \in BOOLEAN : SearchChunks(fault)
    \/ \E text \in GenerationReturns : Generate(text)
    \/ \E fault \in BOOLEAN : LogUsage(fault)

SpecStore == Init /\ [][StoreNext]_vars

(***************************************************************************)
(* The dialogue of one user whose updates are handled concurrently by two  *)
(* tasks, on a bot that is serving.  The user sends one text and the       *)
(* backend gives one answer; the messages differ by their turn.            *)
(***************************************************************************)
\* The bot is serving, the store is empty and nothing was said yet.
DialogueInit == QInit /\ chunks = {}

DialogueNext ==
    \/ \E h \in Handlers :
          chat.turns < MaxConcurrentTurns /\ HandleAiMessage(h, <<"h", "i">>)
    \/ \E h \in Handlers, ok \in BOOLEAN : SendTyping(h, ok)
    \/ \E h \in Handlers : RagBlock(h, Abstain)
    \/ \E h \in Handlers : PlainCall(h)
    \/ \E h \in Handlers : PlainGenerate(h, <<"3", "5", "%">>)
    \/ \E h \in Handlers, ok \in BOOLEAN : Reply(h, ok)
    \/ \E h \in Handlers, ok \in BOOLEAN : ErrorReply(h, ok)

SpecDialogue == DialogueInit /\ [][DialogueNext]_vars

(***************************************************************************)
(* The batch embedding call on its own.                                    *)
(***************************************************************************)
BatchInit ==
    /\ Init
    /\ settings = [RAG_ENABLED |-> TRUE, AI_ENABLED |-> TRUE, POSTGRES_PORT_RAG |-> TRUE]

BatchNext ==
    \/ \E n \in 0..MaxBatch : \E texts \in [1..n -> BatchTexts] : CallBatch(texts)
    \/ \E ok \in BOOLEAN : BatchAnswer(ok)

SpecBatch == BatchInit /\ [][BatchNext]_vars

(***************************************************************************)
(* Properties of ingestion.                                                *)
(***************************************************************************)
Done(c) == up[c].pc = "done"

\* The upload is dispatched to a handler and its text passes the length check.
Ingestible(c) ==
    /\ Handler(up[c].filename) # "unsupported"
    /\ ~TextRejected(ExtractedText(up[c].file))

\* No store operation of the call raised for a reason of the environment
\* (lost connection and the like).
NoStoreFault(c) == up[c].result.error # "store_error"

\* No delete_document call has removed a row.
NothingDeleted == \A k \in DOMAIN del : ~del[k].ret

DuplicateErrors == {"already_uploaded", "unique_violation"}

Succeeded(S) == {c \in S : up[c].result.success}

IndicesOf(doc_id) == {ch.chunk_index : ch \in ChunksOf(chunks, doc_id)}

DocRow(doc_id) == CHOOSE d \in documents : d.id = doc_id

\* C3: a finished process_file call that reached the chunk loop and met no
\* store error returns success=true with chunks_created equal to the number
\* of chunks whose embedding succeeded; while its Document exists,
\* total_chunks equals that number too and the Chunk rows of the Document are
\* exactly the rows for the indices whose embedding succeeded.
C3_PartialFailureCount ==
    \A c \in Calls :
        (Done(c) /\ up[c].doc_id # 0 /\ up[c].result.error \notin ExceptionTexts)
        => /\ up[c].result.success
           /\ up[c].result.chunks_created = Cardinality(up[c].embedded)
           /\ up[c].doc_id \in DocIds(documents) =>
                /\ DocRow(up[c].doc_id).total_chunks = Cardinality(up[c].embedded)
                /\ IndicesOf(up[c].doc_id) = up[c].embedded

\* Embedding failed for chunk 0 and succeeded for chunk 1 of a two-chunk file.
C3_Witness ==
    \E c \in Calls :
        /\ Done(c) /\ up[c].result.success
        /\ up[c].embed_requests >= 2
        /\ up[c].embedded # {} /\ 0 \notin up[c].embedded
        /\ up[c].doc_id \in DocIds(documents)
        /\ IndicesOf(up[c].doc_id) = up[c].embedded

\* C4: after a process_file call has finished, with success or with failure,
\* the Document row it created has total_chunks equal to the number of Chunk
\* rows that reference it.
C4_TotalChunksMatchesRows ==
    \A c \in Calls :
        (Done(c) /\ up[c].doc_id \in DocIds(documents))
        => DocRow(up[c].doc_id).total_chunks
             = Cardinality(ChunksOf(chunks, up[c].doc_id))

\* The results that reject an upload before anything is written.
Rejections == {"unsupported", "already_uploaded", "unreadable", "unique_violation"}

\* C5 as stated: a call that returned success=false has left no Document row
\* and no Chunk row behind.
C5_FailureLeavesNothing ==
    \A c \in Calls :
        (Done(c) /\ ~up[c].result.success)
        => /\ up[c].doc_id \notin DocIds(documents)
           /\ ChunksOf(chunks, up[c].doc_id) = {}

\* C5 amended: a call rejected for duplicate content, unreadable content or an
\* unsupported file kind has inserted no Document row and no Chunk row and
\* has issued no embedding request.
C5_RejectionLeavesNothing ==
    \A c \in Calls :
        (Done(c) /\ up[c].result.error \in Rejections)
        => /\ ~up[c].result.success
           /\ up[c].doc_id = 0
           /\ up[c].embedded = {}
           /\ up[c].embed_requests = 0

\* An unreadable file was rejected while the store holds another document.
C5_Witness ==
    \E c \in Calls :
        /\ Done(c) /\ up[c].result.error = "unreadable"
        /\ documents # {}

\* C6: when every connection attempt of init_rag_system has failed, start-up
\* halts: the bot is not started.
C6_ExhaustionHaltsStartup ==
    initOutcome = "exhausted" => ~botStarted


(***************************************************************************)
(* Properties of retrieval.                                                *)
(***************************************************************************)
QueryDone == qc.call.pc = "done"

\* The query embedding succeeded and search_chunks was called.
SearchIssued == qc.call.query_embedding # None /\ qc.call.searches > 0

\* C7: a finished process_query call whose query embedding succeeded and
\* whose store search was issued has appended exactly one Usage Record.
C7_UsageAlwaysLogged ==
    (QueryDone /\ SearchIssued) => qc.call.logged = 1

\* C8: a finished process_query call whose store answer (at most 4 rows)
\* holds no row of similarity >= 0.7 returned the abstention value, made no
\* generation call and wrote no Usage Record; the answer of an empty
\* knowledge base is empty.
C8_AbstainBelowThreshold ==
    /\ (QueryDone /\ SearchIssued
          /\ \A k \in DOMAIN qc.call.found : qc.call.found[k].similarity < 70)
       => /\ qc.call.result = Abstain
          /\ qc.call.generations = 0
          /\ qc.call.logs = 0
    /\ (chunks = {} /\ QueryDone) => qc.call.found = <<>>

\* The store answered with rows, all below the threshold, and the call
\* abstained.
C8_Witness ==
    /\ QueryDone /\ SearchIssued
    /\ qc.call.found # <<>>
    /\ \A k \in DOMAIN qc.call.found : qc.call.found[k].similarity < 70
    /\ qc.call.result = Abstain

\* C9: a result of process_query has rag_used = true, chunks_used between 1
\* and 4 and equal to the number of chunks in the result; every chunk of the
\* result has similarity >= 0.7, and the chunks of the result are the rows
\* of the store's answer that have similarity >= 0.7, in the store's order.
C9_ResultChunks ==
    (QueryDone /\ qc.call.result # Abstain) =>
        LET r == qc.call.result
            found == qc.call.found
        IN /\ r.success /\ r.rag_used
           /\ r.chunks_used \in 1..4
           /\ r.chunks_used = Len(r.chunks)
           /\ Len(found) <= 4
           /\ \A k \in DOMAIN r.chunks : r.chunks[k].similarity >= 70
           /\ r.chunks = SelectSeq(found, LAMBDA row : row.similarity >= 70)

\* The store answered with four rows, one of them exactly at the threshold
\* and one below it, out of more than four stored.
C9_Witness ==
    /\ QueryDone /\ qc.call.result # Abstain
    /\ Cardinality(chunks) > 4
    /\ Len(qc.call.found) = 4
    /\ \E k \in DOMAIN qc.call.found : qc.call.found[k].similarity = 70
    /\ qc.call.result.chunks_used < 4

\* C10: a finished process_query call whose query embedding failed returned
\* the abstention value and called neither search_chunks nor get_response
\* nor log_usage.
C10_EmbeddingFailureAbstains ==
    (QueryDone /\ qc.call.query_embedding = None) =>
        /\ qc.call.result = Abstain
        /\ qc.call.searches = 0
        /\ qc.call.generations = 0
        /\ qc.call.logs = 0
        /\ qc.call.logged = 0

\* The embedding of a query failed while the store holds chunks.
C10_Witness ==
    /\ QueryDone /\ qc.call.query_embedding = None
    /\ chunks # {}
    /\ qc.call.result = Abstain


(***************************************************************************)
(* Containment of failures in process_query.                               *)
(***************************************************************************)
\* C11: a query call during which the embedding request, the store search,
\* the generation call or the usage logging failed returns the abstention
\* value.
C11_FailureAbstains ==
    (QueryDone /\ qc.call.failures # {}) => qc.call.result = Abstain


(***************************************************************************)
(* Properties of the chat handler.                                         *)
(***************************************************************************)
\* The task of the sequential dialogue.
Turn == chat.handler[1]

\* The RAG block of the turn ran and gave no answer.
NoRagAnswer == Turn.rag \in {"disabled", "failed", "abstained"}

FixedTexts == {TimeoutText, UnavailableText, TechnicalErrorText}

\* C12: a turn that handle_ai_message has finished delivered exactly one
\* reply, which is the text the generation returned or a fixed message; the
\* handler lets an exception out, with no reply, only when the chat transport
\* refused the fixed error text; and a turn whose RAG block gave no answer
\* (disabled, failed or abstained) called the non-augmented generation once,
\* with the user's text and the history the turn began with.
C12_OneReplyPerTurn ==
    /\ Turn.pc = "done" =>
          /\ Len(Turn.replies) = 1
          /\ Turn.replies[1] \in {Turn.ai_response} \cup FixedTexts
          /\ ~Falsy(Turn.replies[1])
    /\ Turn.pc = "raised" => (Turn.replies = <<>> /\ Turn.transport_faults > 0)
    /\ (NoRagAnswer /\ Turn.pc \in {"reply", "error_reply", "done", "raised"}) =>
          /\ Len(Turn.plain) = 1
          /\ Turn.plain[1].user_message = Turn.text
          /\ Turn.plain[1].history = Turn.history0

\* A fourth turn: RAG is enabled, its block failed, the plain generation was
\* called with a three-pair history and its answer reached the user.
C12_Witness ==
    /\ Turn.pc = "done"
    /\ settings.RAG_ENABLED
    /\ Turn.rag = "failed"
    /\ Len(Turn.history0) = max_history_pairs * 2
    /\ Turn.replies = <<Turn.ai_response>>
    /\ Turn.ai_response \notin FixedTexts


(***************************************************************************)
(* Properties of deletion and of the store search.                         *)
(***************************************************************************)
\* Ids of the documents a delete_document call has removed.
Removed == {del[k].id : k \in {j \in DOMAIN del : del[j].ret}}

\* The query vectors the provider can produce.
QueryVectors == {QueryEmbedding(q) : q \in Queries}

\* The document of a row of a search answer.
RowDocument(row) == row.id[1]

\* C13: once delete_document has removed document d, no Chunk row refers to
\* d and no answer the store search can give, for any query vector, holds a
\* chunk of d; an ingestion that was still adding chunks to d does not bring
\* one back.
C13_DeletedNeverSearched ==
    \A d \in Removed :
        /\ d \notin DocIds(documents)
        /\ ChunksOf(chunks, d) = {}
        /\ \A v \in QueryVectors :
             \A found \in SearchResults(chunks, documents, v, SearchLimit) :
                \A k \in DOMAIN found : RowDocument(found[k]) # d

\* A document was removed after its ingestion had persisted chunk 0; the
\* ingestion then tried to add chunk 1 and has ended, while another
\* document's chunk is still found by the search.
C13_Witness ==
    \E c \in Calls :
        /\ Done(c)
        /\ up[c].doc_id \in Removed
        /\ up[c].embedded = {0, 1}
        /\ up[c].result = Failure("foreign_key_violation")
        /\ chunks # {}


(***************************************************************************)
(* Properties of the batch embedding.                                      *)
(***************************************************************************)
\* C14: a finished batch call whose request reached the provider returns one
\* entry per input, in input order, and the entry of an input is the failure
\* marker exactly when that input could not be embedded; the other entries
\* are the vectors of their inputs.
C14_BatchPositionsIndependent ==
    (batch.pc = "done" /\ batch.request_ok) =>
        /\ Len(batch.result) = Len(batch.texts)
        /\ \A k \in DOMAIN batch.texts :
              batch.result[k] = IF Unembeddable(batch.texts[k]) THEN None
                                ELSE TextEmbedding(batch.texts[k])


(***************************************************************************)
(* Chunk indices.                                                          *)
(***************************************************************************)
\* The position in the splitter's output of the chunk a row holds.
SourcePosition(row) == row.content[2]

\* C15: every Chunk row carries as chunk_index the zero-based position of
\* its chunk in the splitter's output; two rows of one document never share
\* a chunk_index; a chunk whose embedding failed has no row and does not
\* shift the index of a later chunk; a call inserts its rows in increasing
\* index order.
C15_ChunkIndexFidelity ==
    /\ \A r \in chunks : r.chunk_index = SourcePosition(r)
    /\ \A r1, r2 \in chunks :
          (r1.document_id = r2.document_id /\ r1.chunk_index = r2.chunk_index)
              => r1 = r2
    /\ \A c \in Calls :
          /\ \A a, b \in DOMAIN up[c].persisted :
                a < b => up[c].persisted[a] < up[c].persisted[b]
          /\ Range(up[c].persisted) \subseteq up[c].embedded
          /\ up[c].doc_id # 0 =>
                {r.chunk_index : r \in ChunksOf(chunks, up[c].doc_id)}
                    \subseteq Range(up[c].persisted)

\* An ingestion of the two-chunk file skipped chunk 0 and succeeded: its
\* document holds one row, for chunk 1 with chunk_index 1.
C15_Witness ==
    \E c \in Calls :
        /\ Done(c)
        /\ up[c].result.success
        /\ up[c].embed_requests = 2
        /\ up[c].persisted = <<1>>
        /\ \E r \in chunks : /\ r.document_id = up[c].doc_id
                             /\ r.chunk_index = 1
                             /\ SourcePosition(r) = 1


(***************************************************************************)
(* The store search as process_query sees it.                              *)
(***************************************************************************)
\* search_chunks of the call in flight has returned its rows.
SearchAnswered == qc.call.searches > 0 /\ "search" \notin qc.call.failures

\* Similarities to the query vector of the Chunk rows that are not in the
\* answer.
LeftOut ==
    {Sim(qc.call.query_embedding, ch.embedding) :
        ch \in {x \in chunks :
                  \A k \in DOMAIN qc.call.found :
                      qc.call.found[k].id # <<x.document_id, x.chunk_index>>}}

\* C16: the answer of search_chunks(query_vector, limit) holds
\* min(limit, number of chunks) rows, none of them twice, in non-increasing
\* similarity; no chunk left out is strictly more similar than a chunk
\* returned; chunks below the relevance threshold are returned like any
\* other.
C16_SearchTopK ==
    SearchAnswered =>
        LET found == qc.call.found IN
        /\ Len(found) = Min(SearchLimit, Cardinality(chunks))
        /\ \A a, b \in DOMAIN found : a < b =>
              /\ found[a].id # found[b].id
              /\ found[a].similarity >= found[b].similarity
        /\ \A k \in DOMAIN found :
              /\ \E ch \in chunks :
                    /\ found[k].id = <<ch.document_id, ch.chunk_index>>
                    /\ found[k].similarity = Sim(qc.call.query_embedding, ch.embedding)
              /\ \A x \in LeftOut : x <= found[k].similarity

\* The store holds more chunks than the limit; the answer is full, its
\* similarities differ, its last row is below the relevance threshold, and
\* a chunk was left out.
C16_Witness ==
    /\ SearchAnswered
    /\ Cardinality(chunks) > SearchLimit
    /\ Len(qc.call.found) = SearchLimit
    /\ qc.call.found[1].similarity > qc.call.found[SearchLimit].similarity
    /\ qc.call.found[SearchLimit].similarity < similarity_threshold
    /\ LeftOut # {}


(***************************************************************************)
(* The minimum-content floor.                                              *)
(***************************************************************************)
\* The number of characters of a text that are not whitespace.
NonWhitespaceCount(t) == Len(SelectSeq(t, LAMBDA ch : ch \notin Whitespace))

\* C17: an upload whose extracted text holds fewer than 10 non-whitespace
\* characters creates no Document and, once finished, has returned
\* success=false, whatever handler its file name selects.
C17_FloorCountsNonWhitespace ==
    \A c \in Calls :
        (up[c].pc # "idle"
            /\ NonWhitespaceCount(ExtractedText(up[c].file)) < MinTextLen) =>
                /\ up[c].doc_id = 0
                /\ Done(c) => ~up[c].result.success


(***************************************************************************)
(* The context-tagging markers.                                            *)
(***************************************************************************)
\* m is a substring of t.
Contains(t, m) ==
    \E k \in 1..(Len(t) - Len(m) + 1) : SubSeq(t, k, k + Len(m) - 1) = m

\* C18: the response of a successful process_query call contains neither the
\* source marker nor the relevance marker.
C18_NoMarkerInResponse ==
    (QueryDone /\ qc.call.result # Abstain) =>
        /\ ~Contains(qc.call.result.response, SourceMarker)
        /\ ~Contains(qc.call.result.response, RelevanceMarker)


(***************************************************************************)
(* The return value of delete_document.                                    *)
(***************************************************************************)
\* C19: every delete_document(id) call returns true exactly when a Document
\* row with that id existed before the call and is gone after it; a call for
\* an id that is not present returns false and leaves the Documents, the
\* Chunks and the Usage Records as they were; a call for an id that an
\* earlier call removed returns false.
C19_DeleteReturnsRemoved ==
    [][ del' # del =>
          LET call == del'[Len(del')]
              existed == call.id \in DocIds(documents)
          IN /\ call.ret = (existed /\ call.id \notin DocIds(documents'))
             /\ ~existed => (~call.ret /\ UNCHANGED <<documents, chunks, usage>>)
             /\ call.id \in Removed => ~call.ret
      ]_vars

\* A document was deleted twice, the first call returned true and the
\* second false, while the other document and its chunks are still stored.
C19_Witness ==
    /\ Len(del) = 2
    /\ del[1].id = del[2].id
    /\ del[1].ret
    /\ ~del[2].ret
    /\ documents # {}
    /\ chunks # {}


(***************************************************************************)
(* The outcome of process_file.                                            *)
(***************************************************************************)
\* C20: every process_file call that has ended returned a dictionary with a
\* success flag; with success=false it carries a non-empty error text, with
\* success=true it carries document_id, the id of the Document the call
\* inserted, and chunks_created.
C20_OutcomeAlwaysTyped ==
    \A c \in Calls :
        Done(c) =>
            LET res == up[c].result IN
            /\ "success" \in res.keys
            /\ ~res.success => ("error" \in res.keys /\ res.error \notin {"", "raised"})
            /\ res.success =>
                  /\ {"document_id", "chunks_created"} \subseteq res.keys
                  /\ res.document_id = up[c].doc_id
                  /\ res.document_id # 0

\* One upload ended with success after an embedding failure; the other was
\* stopped by an exception of the store after it had inserted its Document.
C20_Witness ==
    \E c1, c2 \in Calls :
        /\ Done(c1) /\ Done(c2)
        /\ up[c1].result.success
        /\ up[c1].embed_requests > Len(up[c1].persisted)
        /\ up[c2].result = Failure("store_error")
        /\ up[c2].doc_id # 0

(***************************************************************************)
(* Properties of the chat handler's use of the retrieval engine.           *)
(***************************************************************************)
\* The turn has left the RAG block of handle_ai_message.
PastRagBlock == Turn.pc \in {"generate", "generating", "reply", "done"} /\ Turn.rag # "none"

\* C21: when RAG is enabled and initialised, a user turn of
\* handle_ai_message invokes process_query of the RAGEngine instance created
\* at start-up exactly once, and a turn that got an augmented answer makes
\* no get_response(RAG=False) call.
C21_HandlerReachesEngine ==
    (settings.RAG_ENABLED /\ rag_initialized /\ PastRagBlock) =>
        /\ Turn.rag_calls = 1
        /\ (Turn.rag = "answered" /\ ~Falsy(Turn.ai_response)) => Turn.plain = <<>>

(***************************************************************************)
(* Properties of the start-up connection loop.                             *)
(***************************************************************************)
\* The delays of the claim, by the number of the failed attempt.
ClaimedWaits == <<2, 4, 8, 16>>

\* init_rag_system is inside its connection loop.
InLoop == mainPc \in {"connect", "sleep"}

\* init_rag_system has returned to main_async.
InitReturned == mainPc \notin {"start", "connect", "sleep"}

\* C22: the connection loop makes at most 5 connect attempts and stops at
\* the first success; after the k-th failed attempt, k = 1..4, it sleeps
\* 2, 4, 8, 16 seconds before the next attempt; after the 5th failure it
\* does not sleep; init_rag_system always returns.
C22_BackoffLoopTerminates ==
    /\ [](InLoop => attempt + 1 <= 5)
    /\ [](mainPc = "sleep" => attempt + 1 \in 1..4 /\ wait_time = ClaimedWaits[attempt + 1])
    /\ [][mainPc = "connect" =>
            IF initOutcome' = "ok" THEN mainPc' = "build"
            ELSE IF attempt + 1 < 5
                 THEN mainPc' = "sleep" /\ wait_time' = ClaimedWaits[attempt + 1]
                 ELSE mainPc' = "build" /\ initOutcome' = "exhausted" /\ wait_time' = 0]_vars
    /\ [][mainPc = "sleep" => mainPc' = "connect" /\ attempt' = attempt + 1]_vars
    /\ [](initOutcome \in {"ok", "exhausted"} => ~InLoop)
    /\ <>InitReturned

\* The loop sleeps 16 seconds after its 4th failed attempt.
C22_Witness == mainPc = "sleep" /\ attempt + 1 = 4 /\ wait_time = 16

(***************************************************************************)
(* Properties of the dialogue history.                                     *)
(***************************************************************************)
\* The list context.user_data['ai_history'] refers to.
StoredHistory == chat.lists[chat.stored]

\* The messages come in pairs: a user message, then the assistant message
\* of the same turn.
Paired(h) ==
    /\ Len(h) % 2 = 0
    /\ \A k \in DOMAIN h :
          k % 2 = 1 => /\ h[k].role = "user"
                       /\ h[k + 1].role = "assistant"
                       /\ h[k + 1].turn = h[k].turn

\* Histories the get_response(RAG=False) calls of the running and finished
\* turns sent to the backend.
SentHistories ==
    UNION {{chat.handler[h].plain[k].sent : k \in DOMAIN chat.handler[h].plain} :
             h \in Handlers}

\* C23: under any interleaving of the turns of one user, the history sent
\* to the generation backend holds at most 6 messages, which are the most
\* recent messages of the dialogue in their original order; the stored
\* ai_history holds at most 6 messages; every user message is immediately
\* followed by the assistant message of its turn.
C23_HistoryBounded ==
    /\ [](/\ Len(StoredHistory) <= 6
          /\ Paired(StoredHistory)
          /\ \A s \in SentHistories : Len(s) <= 6 /\ Paired(s))
    /\ [][\A h \in Handlers :
            (chat.handler[h].pc = "generate" /\ chat'.handler[h].pc = "generating") =>
                chat'.handler[h].plain[Len(chat'.handler[h].plain)].sent = chat.recent]_vars

(***************************************************************************)
(* Properties of the usage log.                                            *)
(***************************************************************************)
\* The step is one of a process_file or delete_document call.
IngestOrDeleteStep == up' # up \/ del' # del

\* The step is one of a process_query call.
QueryStep == qc' # qc

\* C24: the usage log is append-only: a step of process_file or of
\* delete_document leaves it unchanged; a step of process_query leaves it
\* unchanged or adds one record after the existing ones, and one call adds
\* at most one record; no step of process_query changes the Document rows
\* or the Chunk rows.
C24_UsageAppendOnly ==
    /\ [][/\ IngestOrDeleteStep => usage' = usage
          /\ usage' # usage =>
                /\ QueryStep
                /\ qc.call.pc = "log" /\ qc'.call.pc = "done"
                /\ Len(usage') = Len(usage) + 1
                /\ SubSeq(usage', 1, Len(usage)) = usage
          /\ QueryStep => /\ documents' = documents
                          /\ chunks' = chunks
                          /\ nextDocId' = nextDocId]_vars
    /\ [](qc.call.logged <= 1 /\ Len(usage) <= qc.count)

\* Two queries were logged against a document that an upload created, and
\* the document has been deleted since: the records are still there.
C24_Witness ==
    /\ Len(usage) = 2
    /\ usage[1].user_id # usage[2].user_id
    /\ up[1].result.success
    /\ \E k \in DOMAIN del : del[k].ret
    /\ documents = {}

(***************************************************************************)
(* Properties of the context block.                                        *)
(***************************************************************************)
\* C25: in the context built for the generation call, the text contributed
\* by each chunk is at most 500 characters long, the chunks stand in the
\* order the store returned them (non-increasing similarity), and each is
\* tagged with its source file name and its similarity.
C25_ContextParts ==
    LET ctx == qc.call.context
        rel == qc.call.relevant_chunks
    IN qc.call.pc \in {"generate", "log"} =>
          /\ Len(ctx) = Len(rel)
          /\ \A k \in DOMAIN ctx :
                /\ ctx[k].length <= 500
                /\ ctx[k].chunk = rel[k].id
                /\ ctx[k].source = rel[k].filename
                /\ ctx[k].similarity = rel[k].similarity
          /\ \A k, j \in DOMAIN ctx : k < j => ctx[k].similarity >= ctx[j].similarity

(***************************************************************************)
(* Properties of an ingestion whose embedding requests all fail.           *)
(***************************************************************************)
\* Call c went through all its chunks, every embedding request failed and
\* no store call raised.
AllEmbeddingsFailed(c) ==
    /\ Done(c)
    /\ up[c].doc_id # 0
    /\ up[c].embed_requests > 0
    /\ up[c].embedded = {}
    /\ up[c].result.error \notin ExceptionTexts

\* The Document row of call c is in the store.
StillStored(c) == up[c].doc_id \in DocIds(documents)

\* C26: when the embedding request fails for every chunk of a document,
\* process_file returns success=true with chunks_created=0 and leaves a
\* Document row with total_chunks=0 and no Chunk row, so no search can
\* return anything of it; while that row is stored, an upload of the same
\* bytes is rejected as a duplicate.
C26_EmptyDocumentKept ==
    /\ [](\A c \in Calls :
            AllEmbeddingsFailed(c) =>
              /\ up[c].result.success
              /\ up[c].result.chunks_created = 0
              /\ up[c].result.document_id = up[c].doc_id
              /\ StillStored(c) =>
                    /\ DocRow(up[c].doc_id).total_chunks = 0
                    /\ ChunksOf(chunks, up[c].doc_id) = {}
                    /\ \A qv \in QueryVectors :
                          \A s \in SearchResults(chunks, documents, qv, SearchLimit) :
                             \A k \in DOMAIN s : RowDocument(s[k]) # up[c].doc_id)
    /\ [][\A c, c2 \in Calls :
            (/\ AllEmbeddingsFailed(c) /\ StillStored(c)
             /\ up[c2].pc = "check" /\ up'[c2].pc # "check"
             /\ up[c2].file = up[c].file)
            => /\ up'[c2].pc = "done"
               /\ ~up'[c2].result.success
               /\ up'[c2].result.error \in {"already_uploaded", "store_error"}
               /\ documents' = documents /\ chunks' = chunks]_vars

\* The first upload of a two-chunk file lost both embeddings and succeeded
\* with no chunk; the second upload of the same bytes was turned away as a
\* duplicate.
C26_Witness ==
    /\ AllEmbeddingsFailed(1) /\ StillStored(1)
    /\ up[1].embed_requests = MaxChunks
    /\ up[1].result.success /\ up[1].result.chunks_created = 0
    /\ Done(2) /\ up[2].file = up[1].file
    /\ up[2].result.error = "already_uploaded"

(***************************************************************************)
(* Properties of ingestions that run while their document is deleted.      *)
(***************************************************************************)
\* Call c has inserted its Document row and has not returned, and the row
\* has been deleted since.
DeletedWhileRunning(c) ==
    /\ up[c].pc \in {"embed", "add_chunk", "finalize"}
    /\ up[c].doc_id \notin DocIds(documents)

\* C27: in every reachable state every Chunk row references a stored
\* Document row; once the document of a running ingestion has been deleted,
\* no chunk is added for it and the ingestion ends with success=false.
C27_DeletedIngestionFails ==
    /\ [](\A ch \in chunks : ch.document_id \in DocIds(documents))
    /\ [][\A c \in Calls :
            DeletedWhileRunning(c) =>
               /\ ChunksOf(chunks', up[c].doc_id) = {}
               /\ up'[c].pc = "done" => ~up'[c].result.success]_vars

(***************************************************************************)
(* Properties of an upload that follows a deletion.                        *)
(***************************************************************************)
\* The other calls that uploaded the bytes of call c and inserted a
\* Document row for them.
EarlierUploads(c) ==
    {x \in Calls \ {c} : up[x].file = up[c].file /\ up[x].doc_id # 0}

\* Call c makes its duplicate check in this step.
ChecksDuplicate(c) == up[c].pc = "check" /\ up'[c].pc # "check"

\* C28: once delete_document has removed the Document created from some
\* bytes, a process_file call with the same bytes is not rejected as a
\* duplicate; the duplicate check answers by the Documents stored at that
\* moment; the Document the call creates has an id no Document had before.
C28_ReuploadAfterDelete ==
    [][\A c \in Calls :
         /\ ChecksDuplicate(c) =>
               /\ (\A x \in EarlierUploads(c) : up[x].doc_id \in Removed)
                     => up'[c].result.error # "already_uploaded"
               /\ up'[c].result.error = "already_uploaded"
                     <=> (up'[c].result.error # "store_error"
                          /\ \E d \in documents : d.file_hash = md5(up[c].file))
         /\ (up[c].pc = "add_document" /\ up'[c].doc_id # 0) =>
               /\ up'[c].doc_id \notin DocIds(documents) \cup Removed
               /\ \A x \in Calls \ {c} : up[x].doc_id # up'[c].doc_id
               /\ up'[c].doc_id \in DocIds(documents')]_vars

\* The first upload's Document was deleted; the second upload of the same
\* bytes succeeded and its Document, with another id, is stored.
C28_Witness ==
    /\ Done(1) /\ up[1].result.success /\ up[1].doc_id \in Removed
    /\ Done(2) /\ up[2].file = up[1].file
    /\ up[2].result.success
    /\ up[2].doc_id # up[1].doc_id
    /\ up[2].doc_id \in DocIds(documents)

(***************************************************************************)
(* Properties of a query whose generation call fails.                      *)
(***************************************************************************)
\* The fixed messages of get_response as process_query would hand them on.
UnavailabilityTexts == {CleanResponse(TimeoutText), CleanResponse(UnavailableText)}

\* C29: a process_query call returns success=true with rag_used=true only
\* when the generation backend produced an answer: when the augmented
\* generation call timed out or failed, the call does not return the
\* success dictionary, its response is not the backend's unavailability
\* text, and no Usage Record is written for it.
C29_SuccessMeansGenerated ==
    /\ (QueryDone /\ qc.call.result # Abstain) =>
          /\ qc.call.generations = 1
          /\ "generation" \notin qc.call.failures
          /\ qc.call.result.response \notin UnavailabilityTexts
    /\ "generation" \in qc.call.failures => qc.call.logged = 0

(***************************************************************************)
(* Properties of the order of the generation call and the usage logging.   *)
(***************************************************************************)
\* The step in which get_response(RAG=True) returns.
GenerationStep == qc'.call.generations > qc.call.generations

\* The step in which log_usage raises.
LoggingFails == qc.call.pc = "log" /\ "logging" \in qc'.call.failures

\* C30: one process_query call makes at most one generation call, and only
\* when at least one chunk passed the threshold; the Usage Record is
\* written only after the generation call has returned; when writing it
\* fails, the call returns the abstention value, the generated answer is
\* not returned and the usage log is left as it was.
C30_GenerateThenLog ==
    /\ [](qc.call.generations <= 1)
    /\ [][/\ GenerationStep =>
                /\ qc.call.generations = 0
                /\ qc.call.relevant_chunks # <<>>
                /\ \A k \in DOMAIN qc.call.relevant_chunks :
                      qc.call.relevant_chunks[k].similarity >= 70
          /\ usage' # usage => (qc.call.pc = "log" /\ qc.call.generations = 1)
          /\ LoggingFails =>
                /\ qc.call.generations = 1
                /\ usage' = usage
                /\ qc'.call.pc = "done"
                /\ qc'.call.result = Abstain]_vars

\* The backend gave an answer, log_usage raised, and the call abstained
\* with nothing in the usage log.
C30_Witness ==
    /\ QueryDone
    /\ qc.call.failures = {"logging"}
    /\ qc.call.generations = 1
    /\ qc.call.result = Abstain
    /\ usage = <<>>

====
